---- MODULE Spec2Model ----
(***************************************************************************)
(* Model of the calculation core of the mining calculator (App.jsx and    *)
(* its copies): the state migration engine (deepMerge, migrateState), the  *)
(* probability rule tables, miningEVBreakdown and unitCostByMode.          *)
(*                                                                         *)
(* JavaScript values are tagged records, so that values of different       *)
(* JavaScript types are comparable and never equal:                        *)
(*   undefined, null, number (an integer n), string s, boolean b,          *)
(*   array a (a sequence), plain object o (a function from keys to values) *)
(***************************************************************************)
EXTENDS Integers, Sequences, FiniteSets, TLC

VARIABLES
  copy,      \* which copy of the source runs: "App.jsx" or "part_001"
  raw,       \* the value JSON.parse produced from localStorage
  doc,       \* the live state held by useLocalStorageState
  prevDoc,   \* the live state of the previous page load
  loads,     \* number of page loads so far
  evArgs,    \* the argument object of the latest miningEVBreakdown call
  ev,        \* the EVBreakdown that call returned
  prevArgs,  \* the argument object of the call before it
  prevEv,    \* the EVBreakdown of the call before it
  costArgs,  \* the argument object of the latest unitCostByMode call
  unitCost,  \* the value that call returned
  compare,   \* the value of IngotPage's compare memo for the live state
  call,      \* the latest direct call of a utility or a rule: name and arguments
  result,    \* the value that call returned
  shared,              \* the Firestore document shared/prices (Undefined: none)
  snapPending,         \* a snapshot of it awaits delivery to the listener
  suppressPriceWrite,  \* suppressPriceWrite.current
  priceUpdateTimer,    \* the pending 800 ms timeout and what it will write
  lastWrite,           \* the latest setDoc on shared/prices and what armed it
  unsent,              \* a local edit of a shared price field awaits its write
  appFeeRate           \* the feeRate memo of App for the live state

vars == <<copy, raw, doc, prevDoc, loads, evArgs, ev, prevArgs, prevEv,
          costArgs, unitCost, compare, call, result,
          shared, snapPending, suppressPriceWrite, priceUpdateTimer, lastWrite,
          unsent, appFeeRate>>

migrateVars == <<raw, prevDoc, loads>>
evVars == <<evArgs, ev, prevArgs, prevEv>>
costVars == <<costArgs, unitCost>>
callVars == <<compare, call, result>>
syncVars == <<shared, snapPending, suppressPriceWrite, priceUpdateTimer, lastWrite,
              unsent>>
appVars == <<syncVars, appFeeRate>>

----------------------------------------------------------------------------
(* Bounds *)

MaxRawVersion == 5   \* raw schemaVersion numbers range over 0..MaxRawVersion
MaxLoads == 3        \* page loads per behaviour
ProbSteps == 4       \* probabilities range over multiples of 1/ProbSteps
MaxRate == 2         \* market rates range over multiples of 3000 up to MaxRate

----------------------------------------------------------------------------
(* JavaScript values *)

Undefined == [t |-> "undefined"]
Null == [t |-> "null"]
Num(i) == [t |-> "num", n |-> i]
Str(x) == [t |-> "str", s |-> x]
Bool(x) == [t |-> "bool", b |-> x]
Arr(x) == [t |-> "arr", a |-> x]
Obj(f) == [t |-> "obj", o |-> f]
\* the numbers NaN, Infinity and -Infinity, named by x
NonFinite(x) == [t |-> "nonfinite", v |-> x]

EmptyProps == [k \in {} |-> Undefined]

\* no call made yet
NoCall == [t |-> "none"]

\* x == null (true of null and undefined), as used by ?? and != null
IsNullish(x) == x.t \in {"undefined", "null"}

\* a ?? b
Coalesce(a, b) == IF IsNullish(a) THEN b ELSE a

\* JavaScript truthiness, as used by ||
Truthy(x) ==
  CASE x.t = "undefined" -> FALSE
    [] x.t = "null" -> FALSE
    [] x.t = "bool" -> x.b
    [] x.t = "num" -> x.n # 0
    [] x.t = "nonfinite" -> x.v # "NaN"
    [] x.t = "str" -> x.s # ""
    [] OTHER -> TRUE

\* a || b
OrElse(a, b) == IF Truthy(a) THEN a ELSE b

\* The own enumerable properties of a value, as seen by object spread
\* ({...x}) and by Object.entries(x): the fields of an object, the indexed
\* elements of an array, the indexed characters of a string, nothing else.
OwnProps(x) ==
  CASE x.t = "obj" -> x.o
    [] x.t = "arr" ->
         [k \in {ToString(i - 1) : i \in 1..Len(x.a)} |->
            x.a[CHOOSE i \in 1..Len(x.a) : ToString(i - 1) = k]]
    [] x.t = "str" ->
         [k \in {ToString(i - 1) : i \in 1..Len(x.s)} |->
            LET i == CHOOSE j \in 1..Len(x.s) : ToString(j - 1) = k
            IN Str(SubSeq(x.s, i, i))]
    [] OTHER -> EmptyProps

\* x[k] for a property name k
Get(x, k) ==
  IF x.t = "obj" /\ k \in DOMAIN x.o THEN x.o[k] ELSE Undefined

\* { ...x, [k]: v }
With(x, k, v) ==
  LET p == OwnProps(x)
  IN Obj([j \in DOMAIN p \cup {k} |-> IF j = k THEN v ELSE p[j]])

\* Array.prototype.join(",") over already converted elements
RECURSIVE JoinComma(_)
JoinComma(q) ==
  IF q = <<>> THEN ""
  ELSE IF Len(q) = 1 THEN q[1]
  ELSE q[1] \o "," \o JoinComma(Tail(q))

\* String(x)
RECURSIVE String(_)
String(x) ==
  CASE x.t = "undefined" -> "undefined"
    [] x.t = "null" -> "null"
    [] x.t = "bool" -> IF x.b THEN "true" ELSE "false"
    [] x.t = "num" -> ToString(x.n)
    [] x.t = "nonfinite" -> x.v
    [] x.t = "str" -> x.s
    [] x.t = "arr" ->
         JoinComma([i \in 1..Len(x.a) |->
                      IF IsNullish(x.a[i]) THEN "" ELSE String(x.a[i])])
    [] OTHER -> "[object Object]"

----------------------------------------------------------------------------
(* Numbers the calculators compute with: exact fractions num/den in lowest *)
(* terms with den > 0, NaN, Infinity and -Infinity                          *)

NaN == [t |-> "nan"]
Infinity == [t |-> "inf", neg |-> FALSE]
NegInfinity == [t |-> "inf", neg |-> TRUE]

RECURSIVE GCD(_, _)
GCD(a, b) == IF b = 0 THEN a ELSE GCD(b, a % b)

Abs(i) == IF i < 0 THEN -i ELSE i

R(n, d) ==
  LET g == GCD(Abs(n), d)
  IN [t |-> "rat", num |-> n \div g, den |-> d \div g]

I(n) == R(n, 1)

RAdd(a, b) == R(a.num * b.den + b.num * a.den, a.den * b.den)
RSub(a, b) == R(a.num * b.den - b.num * a.den, a.den * b.den)
RMul(a, b) == R(a.num * b.num, a.den * b.den)
\* a / b for finite a and b: x / 0 is NaN for x = 0, else an infinity
RDiv(a, b) ==
  IF b.num = 0
  THEN IF a.num = 0 THEN NaN ELSE IF a.num > 0 THEN Infinity ELSE NegInfinity
  ELSE IF b.num < 0 THEN R(-(a.num * b.den), a.den * (-b.num))
  ELSE R(a.num * b.den, a.den * b.num)
RLess(a, b) == a.num * b.den < b.num * a.den
RLeq(a, b) == a.num * b.den <= b.num * a.den

\* Number.isFinite(x)
IsFinite(x) == x.t = "rat"

\* Math.max(a, b), Math.min(a, b): NaN if either is NaN
MathMax(a, b) ==
  IF a.t = "nan" \/ b.t = "nan" THEN NaN
  ELSE IF a = Infinity \/ b = Infinity THEN Infinity
  ELSE IF a = NegInfinity THEN b
  ELSE IF b = NegInfinity THEN a
  ELSE IF RLess(a, b) THEN b ELSE a
MathMin(a, b) ==
  IF a.t = "nan" \/ b.t = "nan" THEN NaN
  ELSE IF a = NegInfinity \/ b = NegInfinity THEN NegInfinity
  ELSE IF a = Infinity THEN b
  ELSE IF b = Infinity THEN a
  ELSE IF RLess(b, a) THEN b ELSE a

----------------------------------------------------------------------------
(* Utilities *)

clamp01(x) ==
  IF ~IsFinite(x) THEN I(0) ELSE MathMax(I(0), MathMin(I(1), x))

netSell(gross, feeRate) == RMul(gross, RSub(I(1), feeRate))

\* String.prototype.trim() for the white space a text field can hold
IsSpace(c) == c \in {" ", "\t", "\n"}

RECURSIVE TrimLeft(_)
TrimLeft(x) ==
  IF x # "" /\ IsSpace(Head(x)) THEN TrimLeft(Tail(x)) ELSE x

RECURSIVE TrimRight(_)
TrimRight(x) ==
  IF x # "" /\ IsSpace(SubSeq(x, Len(x), Len(x)))
  THEN TrimRight(SubSeq(x, 1, Len(x) - 1)) ELSE x

Trim(x) == TrimRight(TrimLeft(x))

DigitChars == <<"0", "1", "2", "3", "4", "5", "6", "7", "8", "9">>
IsDigit(c) == \E i \in 1..10 : DigitChars[i] = c
DigitValue(c) == (CHOOSE i \in 1..10 : DigitChars[i] = c) - 1

AllDigits(x) == \A i \in 1..Len(x) : IsDigit(SubSeq(x, i, i))

\* the value of a string of decimal digits (0 for the empty string)
RECURSIVE DigitsValue(_)
DigitsValue(x) ==
  IF x = "" THEN 0
  ELSE 10 * DigitsValue(SubSeq(x, 1, Len(x) - 1))
       + DigitValue(SubSeq(x, Len(x), Len(x)))

RECURSIVE Pow10(_)
Pow10(k) == IF k = 0 THEN 1 ELSE 10 * Pow10(k - 1)

\* position of the first "." in x, Len(x) + 1 if there is none
DotAt(x) ==
  IF \E i \in 1..Len(x) : SubSeq(x, i, i) = "."
  THEN CHOOSE i \in 1..Len(x) :
         /\ SubSeq(x, i, i) = "."
         /\ \A j \in 1..(i - 1) : SubSeq(x, j, j) # "."
  ELSE Len(x) + 1

\* position of the first character of x that is in cs, Len(x) + 1 if none
FirstOf(x, cs) ==
  IF \E i \in 1..Len(x) : SubSeq(x, i, i) \in cs
  THEN CHOOSE i \in 1..Len(x) :
         /\ SubSeq(x, i, i) \in cs
         /\ \A j \in 1..(i - 1) : SubSeq(x, j, j) \notin cs
  ELSE Len(x) + 1

\* the unsigned decimal literal x: digits, an optional "." and more digits,
\* at least one digit in all; NaN for any other text
DecimalOf(x) ==
  LET dot == DotAt(x)
      whole == SubSeq(x, 1, dot - 1)
      frac == SubSeq(x, dot + 1, Len(x))
  IN IF AllDigits(whole) /\ AllDigits(frac) /\ Len(whole) + Len(frac) > 0
     THEN R(DigitsValue(whole) * Pow10(Len(frac)) + DigitsValue(frac),
            Pow10(Len(frac)))
     ELSE NaN

RadixDigits ==
  <<"0", "1", "2", "3", "4", "5", "6", "7", "8", "9",
    "a", "b", "c", "d", "e", "f">>
RadixUpperDigits ==
  <<"0", "1", "2", "3", "4", "5", "6", "7", "8", "9",
    "A", "B", "C", "D", "E", "F">>

\* the digits of x read in the given radix (2, 8 or 16), NaN unless x is a
\* non-empty string of digits of that radix
RECURSIVE RadixValue(_, _)
RadixValue(x, radix) ==
  LET c == SubSeq(x, Len(x), Len(x))
      IsRadixDigit(d) ==
        \E i \in 1..radix : RadixDigits[i] = d \/ RadixUpperDigits[i] = d
      ValueOf(d) ==
        (CHOOSE i \in 1..radix : RadixDigits[i] = d \/ RadixUpperDigits[i] = d) - 1
      rest == RadixValue(SubSeq(x, 1, Len(x) - 1), radix)
  IN IF x = "" \/ ~IsRadixDigit(c) THEN NaN
     ELSE IF Len(x) = 1 THEN I(ValueOf(c))
     ELSE IF IsFinite(rest) THEN I(radix * rest.num + ValueOf(c))
     ELSE NaN

\* a reading of plain decimal notation only: a sign, digits, a "."
NumberOf_plain(x) ==
  LET signed == Head(x) \in {"-", "+"}
      magnitude == DecimalOf(IF signed THEN Tail(x) ELSE x)
  IN IF ~IsFinite(magnitude) THEN NaN
     ELSE IF Head(x) = "-" THEN RSub(I(0), magnitude) ELSE magnitude

\* -x for a number a literal can denote
Negated(x) ==
  IF x.t = "nan" THEN NaN
  ELSE IF x.t = "inf" THEN (IF x.neg THEN Infinity ELSE NegInfinity)
  ELSE RSub(I(0), x)

\* mantissa * 10^exponent for the digits of an exponent: an exponent of 400
\* or more takes every non-zero mantissa out of the range of a double; a
\* smaller one is applied exactly, which is what the double does for the
\* short literals the model enters
ScaledBy(mantissa, expDigits, expNeg) ==
  IF mantissa.num = 0 THEN I(0)
  ELSE IF Len(expDigits) > 3 \/ DigitsValue(expDigits) >= 400
       THEN IF expNeg THEN I(0) ELSE Infinity
  ELSE IF expNeg THEN RDiv(mantissa, I(Pow10(DigitsValue(expDigits))))
  ELSE RMul(mantissa, I(Pow10(DigitsValue(expDigits))))

\* the mantissa with the exponent part expText (what follows "e") applied
Scaled(mantissa, expText) ==
  IF ~IsFinite(mantissa) \/ expText = "" THEN NaN
  ELSE IF Head(expText) \in {"-", "+"}
       THEN IF Tail(expText) # "" /\ AllDigits(Tail(expText))
            THEN ScaledBy(mantissa, Tail(expText), Head(expText) = "-")
            ELSE NaN
  ELSE IF AllDigits(expText) THEN ScaledBy(mantissa, expText, FALSE)
  ELSE NaN

\* an unsigned decimal literal with its "e" at position ePos
\* (Len(body) + 1 if it has no exponent part), or "Infinity"
UnsignedOf(body, ePos) ==
  IF body = "Infinity" THEN Infinity
  ELSE IF ePos > Len(body) THEN DecimalOf(body)
  ELSE Scaled(DecimalOf(SubSeq(body, 1, ePos - 1)),
              SubSeq(body, ePos + 1, Len(body)))

\* Number(t) for a trimmed, non-empty t (the StringNumericLiteral grammar):
\* an unsigned 0x, 0o or 0b literal, or, with an optional sign, "Infinity"
\* or a decimal literal with an optional exponent part. Everything else is
\* NaN.
NumberOf(x) ==
  IF Len(x) >= 2 /\ SubSeq(x, 1, 2) \in {"0x", "0X"}
  THEN RadixValue(SubSeq(x, 3, Len(x)), 16)
  ELSE IF Len(x) >= 2 /\ SubSeq(x, 1, 2) \in {"0o", "0O"}
  THEN RadixValue(SubSeq(x, 3, Len(x)), 8)
  ELSE IF Len(x) >= 2 /\ SubSeq(x, 1, 2) \in {"0b", "0B"}
  THEN RadixValue(SubSeq(x, 3, Len(x)), 2)
  ELSE IF Head(x) = "-"
  THEN Negated(UnsignedOf(Tail(x), FirstOf(Tail(x), {"e", "E"})))
  ELSE IF Head(x) = "+"
  THEN UnsignedOf(Tail(x), FirstOf(Tail(x), {"e", "E"}))
  ELSE UnsignedOf(x, FirstOf(x, {"e", "E"}))

\* Number.prototype.toString of a finite number below 10^21 whose decimal
\* expansion ends within 9 places: plain decimal notation from 10^-6 up,
\* exponent notation below
RECURSIVE PadZeros(_, _)
PadZeros(x, width) == IF Len(x) >= width THEN x ELSE PadZeros("0" \o x, width)

NumberToString(q) ==
  LET k == CHOOSE j \in 0..9 :
             /\ Pow10(j) % q.den = 0
             /\ \A i \in 0..(j - 1) : Pow10(i) % q.den # 0
      m == Abs(q.num) * (Pow10(k) \div q.den)
      sign == IF q.num < 0 THEN "-" ELSE ""
      digits == ToString(m)
      whole == ToString(m \div Pow10(k))
      frac == PadZeros(ToString(m % Pow10(k)), k)
      exponent == k - (Len(digits) - 1)
  IN IF k > 6 /\ Len(digits) <= k - 6
     THEN sign \o Head(digits)
          \o (IF Len(digits) > 1 THEN "." \o Tail(digits) ELSE "")
          \o "e-" \o ToString(exponent)
     ELSE IF k = 0 THEN sign \o whole
     ELSE sign \o whole \o "." \o frac

\* toNum returning 0, not the fallback, for a text that is not a number
toNum_zero(v, fallback) ==
  IF v.t = "num" THEN I(v.n)
  ELSE IF v.t = "nonfinite" THEN fallback
  ELSE IF v.t # "str" THEN fallback
  ELSE LET x == Trim(v.s)
       IN IF x = "" THEN fallback
          ELSE IF x \in {"-", ".", "-."} THEN fallback
          ELSE LET n == NumberOf(x)
               IN IF IsFinite(n) THEN n ELSE I(0)

\* toNum returning Number(t) without the final Number.isFinite test
toNum_unchecked(v, fallback) ==
  IF v.t = "num" THEN I(v.n)
  ELSE IF v.t = "nonfinite" THEN fallback
  ELSE IF v.t # "str" THEN fallback
  ELSE LET x == Trim(v.s)
       IN IF x = "" THEN fallback
          ELSE IF x \in {"-", ".", "-."} THEN fallback
          ELSE NumberOf(x)

\* toNum(v, fallback): v is a JavaScript value, the result a number
toNum(v, fallback) ==
  IF v.t = "num" THEN I(v.n)
  ELSE IF v.t = "nonfinite" THEN fallback
  ELSE IF v.t # "str" THEN fallback
  ELSE LET x == Trim(v.s)
       IN IF x = "" THEN fallback
          ELSE IF x \in {"-", ".", "-."} THEN fallback
          ELSE LET n == NumberOf(x)
               IN IF IsFinite(n) THEN n ELSE fallback

----------------------------------------------------------------------------
(* Domain rules *)

SAGE_SHARDS_BY_ENH ==
  ("5" :> 4) @@ ("6" :> 4) @@ ("7" :> 4) @@ ("8" :> 5) @@ ("9" :> 5)
  @@ ("10" :> 5) @@ ("11" :> 6) @@ ("12" :> 6) @@ ("13" :> 7) @@ ("14" :> 7)
  @@ ("15" :> 12)

\* property names every object literal inherits from Object.prototype
ObjectPrototypeNames ==
  {"constructor", "toString", "toLocaleString", "valueOf", "hasOwnProperty",
   "isPrototypeOf", "propertyIsEnumerable", "__proto__"}

\* SAGE_SHARDS_BY_ENH[level] ?? 0 (a property name is the string of the key;
\* an inherited name yields the inherited member, which is not nullish)
shardsPerDigOf(level) ==
  IF String(level) \in DOMAIN SAGE_SHARDS_BY_ENH
  THEN I(SAGE_SHARDS_BY_ENH[String(level)])
  ELSE IF String(level) \in ObjectPrototypeNames
  THEN [t |-> "inherited", name |-> String(level)]
  ELSE I(0)

gemExpertRule(level) ==
  IF level = Num(1) THEN [prob |-> R(3, 100), count |-> I(1)]
  ELSE IF level = Num(2) THEN [prob |-> R(7, 100), count |-> I(1)]
  ELSE IF level = Num(3) THEN [prob |-> R(10, 100), count |-> I(2)]
  ELSE [prob |-> I(0), count |-> I(0)]

\* flamingPickRule following the 1% per level pattern at level 10
flamingPickRule_linear(level) ==
  IF level.t # "num" \/ level.n <= 0 THEN [prob |-> I(0), ingots |-> I(1)]
  ELSE IF level.n >= 10 THEN [prob |-> R(10, 100), ingots |-> I(1)]
  ELSE [prob |-> R(level.n, 100), ingots |-> I(1)]

\* flamingPickRule without the level <= 0 test
flamingPickRule_unguarded(level) ==
  IF level.t # "num" THEN [prob |-> I(0), ingots |-> I(1)]
  ELSE IF level.n >= 10 THEN [prob |-> R(15, 100), ingots |-> I(1)]
  ELSE [prob |-> R(level.n, 100), ingots |-> I(1)]

flamingPickRule(level) ==
  IF level.t # "num" \/ level.n <= 0 THEN [prob |-> I(0), ingots |-> I(1)]
  ELSE IF level.n >= 10 THEN [prob |-> R(15, 100), ingots |-> I(1)]
  ELSE [prob |-> R(level.n, 100), ingots |-> I(1)]

----------------------------------------------------------------------------
(* Expected value function *)

\* the normal-path yield left un-reduced (replacement added on top)
ingotFromShardsPerDigOf_additive(p, shardsPerDig, spi) ==
  RDiv(MathMax(I(0), shardsPerDig), spi)

\* the normal-path yield weighted by p in place of 1 - p
ingotFromShardsPerDigOf_inverted(p, shardsPerDig, spi) ==
  RMul(p, RDiv(MathMax(I(0), shardsPerDig), spi))

\* (1 - p) * (Math.max(0, shardsPerDig) / spi)
ingotFromShardsPerDigOf(p, shardsPerDig, spi) ==
  RMul(RSub(I(1), p), RDiv(MathMax(I(0), shardsPerDig), spi))

\* the gem drop replaced by the flaming ingot, like the shards
gemValuePerDigOf_replaced(a, gemNet) ==
  RMul(RSub(I(1), clamp01(a.flamingIngotProb)),
       RMul(RMul(clamp01(a.gemDropProb), MathMax(I(0), a.gemDropCount)), gemNet))

\* clamp01(gemDropProb) * Math.max(0, gemDropCount) * gemNet
gemValuePerDigOf(a, gemNet) ==
  RMul(RMul(clamp01(a.gemDropProb), MathMax(I(0), a.gemDropCount)), gemNet)

\* the stamina per dig floored at 0
spdOf_zeroFloor(staminaPerDig) == MathMax(I(0), staminaPerDig)

\* const spd = Math.max(1, staminaPerDig)
spdOf(staminaPerDig) == MathMax(I(1), staminaPerDig)

miningEVBreakdown(a) ==
  LET spd == spdOf(a.staminaPerDig)
      spi == MathMax(I(1), a.shardsPerIngot)
      p == clamp01(a.flamingIngotProb)
      ingotNet == netSell(MathMax(I(0), a.ingotGrossPrice), a.sellFeeRate)
      gemNet == netSell(MathMax(I(0), a.gemGrossPrice), a.sellFeeRate)
      ingotFromShardsPerDig == ingotFromShardsPerDigOf(p, a.shardsPerDig, spi)
      ingotFromShardsValuePerDig == RMul(ingotFromShardsPerDig, ingotNet)
      ingotFromFlamePerDig == RMul(p, I(1))
      ingotFromFlameValuePerDig == RMul(ingotFromFlamePerDig, ingotNet)
      gemValuePerDig == gemValuePerDigOf(a, gemNet)
      totalPerDig ==
        RAdd(RAdd(ingotFromShardsValuePerDig, ingotFromFlameValuePerDig),
             gemValuePerDig)
      totalPerStamina == RDiv(totalPerDig, spd)
  IN [pFlame |-> p,
      staminaPerDig |-> spd,
      shardsPerIngot |-> spi,
      ingotNet |-> ingotNet,
      gemNet |-> gemNet,
      ingotFromShardsPerDig |-> ingotFromShardsPerDig,
      ingotFromShardsValuePerDig |-> ingotFromShardsValuePerDig,
      ingotFromFlamePerDig |-> ingotFromFlamePerDig,
      ingotFromFlameValuePerDig |-> ingotFromFlameValuePerDig,
      gemValuePerDig |-> gemValuePerDig,
      totalPerDig |-> totalPerDig,
      totalPerStamina |-> totalPerStamina]

----------------------------------------------------------------------------
(* Crafting profit helpers *)

unitCostByMode(a) ==
  IF a.mode = "owned" THEN I(0)
  ELSE IF a.mode = "buy" THEN MathMax(I(0), a.marketPrice)
  ELSE netSell(MathMax(I(0), a.marketPrice), a.feeRate)

\* unitCostByMode as written in part_001 (both copies in that file): the
\* function body ends after the "buy" line, the return for the remaining
\* mode being part of a comment, so the call returns undefined.
unitCostByMode_part_001(a) ==
  IF a.mode = "owned" THEN I(0)
  ELSE IF a.mode = "buy" THEN MathMax(I(0), a.marketPrice)
  ELSE Undefined

\* the unitCostByMode the running copy calls
unitCostByModeOf(c, a) ==
  IF c = "part_001" THEN unitCostByMode_part_001(a) ELSE unitCostByMode(a)

----------------------------------------------------------------------------
(* Root App and PotionPage: from the live state to the EV breakdown *)

\* App.feeRate without the clamp
feeRateOf_unclamped(s) == RDiv(toNum(Get(s, "feePct"), I(0)), I(100))

\* App.feeRate
feeRateOf(s) ==
  LET v == RDiv(toNum(Get(s, "feePct"), I(0)), I(100))
  IN MathMax(I(0), MathMin(R(1, 2), v))

\* the argument object PotionPage hands to miningEVBreakdown
potionEVArgs(s) ==
  [staminaPerDig |-> toNum(Get(s, "staminaPerDig"), I(10)),
   shardsPerDig |-> shardsPerDigOf(Get(s, "sageEnhLevel")),
   shardsPerIngot |-> toNum(Get(s, "shardsPerIngot"), I(16)),
   ingotGrossPrice |-> toNum(Get(s, "ingotGrossPrice"), I(0)),
   gemDropProb |-> gemExpertRule(Get(s, "gemExpertLevel")).prob,
   gemDropCount |-> gemExpertRule(Get(s, "gemExpertLevel")).count,
   gemGrossPrice |-> toNum(Get(s, "gemGrossPrice"), I(0)),
   flamingIngotProb |-> flamingPickRule(Get(s, "flamingPickLevel")).prob,
   sellFeeRate |-> feeRateOf(s)]

----------------------------------------------------------------------------
(* Deep merge for localStorage state migration *)

\* isPlainObject without the Array.isArray test
isPlainObject_arrays(x) == x.t \in {"obj", "arr"}

isPlainObject(x) == x.t = "obj"

\* out[k] = ... on out = { ...base }: an assignment creates or overwrites an
\* own property, except for the name "__proto__" when out has no own
\* property of that name: then the assignment runs the setter inherited
\* from Object.prototype, which changes the prototype of out (or does
\* nothing) and creates no property.  JSON.parse does create own properties
\* of that name, so a patch can hold one.
AssignedKeys(b, p) == {k \in DOMAIN p : k # "__proto__" \/ k \in DOMAIN b}

\* the own properties of the result; the prototype an assignment to
\* "__proto__" installs is not part of them
RECURSIVE deepMerge(_, _)
deepMerge(base, patch) ==
  IF ~isPlainObject(base) \/ ~isPlainObject(patch)
  THEN Coalesce(patch, base)
  ELSE LET b == OwnProps(base)
           p == OwnProps(patch)
       IN Obj([k \in DOMAIN b \cup AssignedKeys(b, p) |->
                 IF k \notin DOMAIN p THEN b[k]
                 ELSE IF k \in DOMAIN b /\ isPlainObject(b[k]) /\ isPlainObject(p[k])
                      THEN deepMerge(b[k], p[k])
                      ELSE p[k]])

----------------------------------------------------------------------------
(* App state *)

defaultState ==
  Obj([schemaVersion |-> Num(4),
       activeMenu |-> Str("potion"),
       feePct |-> Str("5"),
       themeMode |-> Str("light"),
       sageEnhLevel |-> Num(15),
       gemExpertLevel |-> Num(3),
       flamingPickLevel |-> Num(0),
       staminaPerDig |-> Str("10"),
       shardsPerIngot |-> Str("16"),
       ingotGrossPrice |-> Str("6000"),
       gemGrossPrice |-> Str("12000"),
       potionPrices |->
         Obj([p100 |-> Str("14000"), p300 |-> Str("70000"),
              p500 |-> Str("160000"), p700 |-> Str("210000")]),
       potionRowDetailsOpen |->
         Obj([p100 |-> Bool(FALSE), p300 |-> Bool(FALSE),
              p500 |-> Bool(FALSE), p700 |-> Bool(FALSE)]),
       abilityGrossSell |-> Str("18000"),
       lifeGrossSell |->
         Obj([low |-> Str("9000"), mid |-> Str("30000"), high |-> Str("60000")]),
       prices |->
         Obj([ingot |-> Obj([market |-> Str("6000")]),
              stone |-> Obj([market |-> Str("773")]),
              deepCobble |-> Obj([market |-> Str("281")]),
              redstone |-> Obj([market |-> Str("97")]),
              copper |-> Obj([market |-> Str("100")]),
              diamond |-> Obj([market |-> Str("2900")]),
              iron |-> Obj([market |-> Str("700")]),
              lapis |-> Obj([market |-> Str("100")]),
              gold |-> Obj([market |-> Str("570")]),
              amethyst |-> Obj([market |-> Str("78")])]),
       modes |->
         Obj([ingot |-> Str("opportunity"), stone |-> Str("owned"),
              deepCobble |-> Str("owned"), redstone |-> Str("owned"),
              copper |-> Str("owned"), diamond |-> Str("buy"),
              iron |-> Str("owned"), lapis |-> Str("owned"),
              gold |-> Str("owned"), amethyst |-> Str("owned")]),
       recipes |->
         Obj([ability |-> Obj([ingot |-> Num(3)]),
              low |-> Obj([ingot |-> Num(1), stone |-> Num(2),
                           redstone |-> Num(3), copper |-> Num(8)]),
              mid |-> Obj([ingot |-> Num(2), deepCobble |-> Num(2),
                           diamond |-> Num(3), iron |-> Num(5), lapis |-> Num(5)]),
              high |-> Obj([ingot |-> Num(3), diamond |-> Num(5), gold |-> Num(7),
                            iron |-> Num(7), amethyst |-> Num(20),
                            copper |-> Num(30)])]),
       feedbacks |-> Obj([nextId |-> Num(1), items |-> Arr(<<>>)]),
       adminMode |-> Bool(FALSE)])

\* The defaultState literal of part_001 (both copies in that file): the line
\* "sageEnhLevel: 15," sits at the end of a comment line there, so the
\* object has no sageEnhLevel property; every other property is the same.
defaultState_part_001 ==
  Obj([k \in DOMAIN defaultState.o \ {"sageEnhLevel"} |-> defaultState.o[k]])

\* The default document the running copy passes to useLocalStorageState
defaultsOf(c) == IF c = "part_001" THEN defaultState_part_001 ELSE defaultState

----------------------------------------------------------------------------
(* migrateState *)

\* Number.isFinite(incoming.schemaVersion) ? incoming.schemaVersion : 0
incomingVerOf(incoming) ==
  LET v == Get(incoming, "schemaVersion")
  IN IF v.t = "num" THEN v.n ELSE 0

\* v0 -> v1 : potionRowDetailsOpen
transform_v0_v1(s) ==
  With(s, "potionRowDetailsOpen",
       Obj(OwnProps(OrElse(Get(s, "potionRowDetailsOpen"), Obj(EmptyProps)))
           @@ [p100 |-> Bool(FALSE), p300 |-> Bool(FALSE),
               p500 |-> Bool(FALSE), p700 |-> Bool(FALSE)]))

\* the body of the loop over Object.entries(oldPrices)
normalizePrice(v) ==
  IF isPlainObject(v)
  THEN LET market == Coalesce(Coalesce(Coalesce(Get(v, "market"), Get(v, "grossSell")),
                                       Get(v, "buy")), Num(0))
       IN Obj([market |-> Str(String(Coalesce(market, Str(""))))])
  ELSE Obj([market |-> Str(String(Coalesce(v, Str(""))))])

\* v1 -> v2 : prices {grossSell, buy} -> {market}
transform_v1_v2(s, defaults) ==
  LET oldPrices == OwnProps(OrElse(Get(s, "prices"), Obj(EmptyProps)))
      normalized == Obj([k \in DOMAIN oldPrices |-> normalizePrice(oldPrices[k])])
  IN With(s, "prices", deepMerge(Get(defaults, "prices"), normalized))

\* v2 -> v3 : feedbacks defaults
transform_v2_v3(s) ==
  With(s, "feedbacks",
       Obj(OwnProps(OrElse(Get(s, "feedbacks"), Obj(EmptyProps)))
           @@ [nextId |-> Num(1), items |-> Arr(<<>>)]))

\* v3 -> v4 : adminMode default
transform_v3_v4(s) == With(s, "adminMode", Bool(FALSE))

\* the final assignment writing the version before the current one
stampSchemaVersion_stale(s, defaults) ==
  With(s, "schemaVersion", Num(Get(defaults, "schemaVersion").n - 1))

\* the final assignment left out
stampSchemaVersion_skipped(s, defaults) == s

\* s.schemaVersion = defaults.schemaVersion
stampSchemaVersion(s, defaults) ==
  With(s, "schemaVersion", Get(defaults, "schemaVersion"))

\* migrateState running each transform also at its own target version
migrateState_inclusive(r, defaults) ==
  LET incoming == IF isPlainObject(r) THEN r ELSE Obj(EmptyProps)
      incomingVer == incomingVerOf(incoming)
      s0 == deepMerge(defaults, incoming)
      s1 == IF incomingVer <= 1 THEN transform_v0_v1(s0) ELSE s0
      s2 == IF incomingVer <= 2 THEN transform_v1_v2(s1, defaults) ELSE s1
      s3 == IF incomingVer <= 3 THEN transform_v2_v3(s2) ELSE s2
      s4 == IF incomingVer <= 4 THEN transform_v3_v4(s3) ELSE s3
  IN stampSchemaVersion(s4, defaults)

migrateState(r, defaults) ==
  LET incoming == IF isPlainObject(r) THEN r ELSE Obj(EmptyProps)
      incomingVer == incomingVerOf(incoming)
      s0 == deepMerge(defaults, incoming)
      s1 == IF incomingVer < 1 THEN transform_v0_v1(s0) ELSE s0
      s2 == IF incomingVer < 2 THEN transform_v1_v2(s1, defaults) ELSE s1
      s3 == IF incomingVer < 3 THEN transform_v2_v3(s2) ELSE s2
      s4 == IF incomingVer < 4 THEN transform_v3_v4(s3) ELSE s3
  IN stampSchemaVersion(s4, defaults)

----------------------------------------------------------------------------
(* Persisted documents an older or newer release may have left behind *)

Absent == EmptyProps
Field(k, v) == k :> v

RawVersions ==
  {Absent} \cup {Field("schemaVersion", Num(v)) : v \in 0..MaxRawVersion}
           \cup {Field("schemaVersion", Str("3")), Field("schemaVersion", Null)}

\* a legacy price entry: any of grossSell, buy; no market
LegacyEntries ==
  {Obj(g @@ b) :
     g \in {Absent, Field("grossSell", Num(5000)), Field("grossSell", Str("5500")),
            Field("grossSell", Null)},
     b \in {Absent, Field("buy", Num(7000))}}

RawPrices ==
  {Absent}
  \cup {Field("prices", Obj(Field(k, e))) : k \in {"ingot", "emerald"}, e \in LegacyEntries}
  \cup {Field("prices", Obj(Field("ingot", e))) :
          e \in {Obj([market |-> Str("6500")]),
                 Obj([market |-> Str("6500"), grossSell |-> Num(5000)]),
                 Num(5000), Null, Arr(<<Num(1), Null, Str("x")>>)}}
  \cup {Field("prices", p) : p \in {Null, Str("ab"), Obj(EmptyProps)}}

RawFlags ==
  {Absent,
   Field("potionRowDetailsOpen", Obj([p300 |-> Bool(TRUE)])),
   Field("potionRowDetailsOpen", Null)}

RawFeedbacks ==
  {Absent,
   Field("feedbacks", Obj([nextId |-> Num(7), items |-> Arr(<<Str("hi")>>)])),
   Field("feedbacks", Null)}

RawOthers ==
  {Absent,
   [adminMode |-> Bool(TRUE), sageEnhLevel |-> Num(10), legacyField |-> Str("old")]}

RawObjects ==
  {Obj(v @@ p @@ f @@ b @@ x) :
     v \in RawVersions, p \in RawPrices, f \in RawFlags, b \in RawFeedbacks,
     x \in RawOthers}

\* values JSON.parse can return that are not plain objects
RawNonObjects == {Undefined, Null, Arr(<<Str("x")>>), Str("potion"), Num(4), Bool(TRUE)}

RawDocs == RawObjects \cup RawNonObjects

----------------------------------------------------------------------------
(* IngotPage: the crafting comparison computed from the live state          *)

\* Math.round(x): the nearest integer, halves toward +Infinity
MathRound(x) == I((2 * x.num + x.den) \div (2 * x.den))

\* sum(arr), arr.reduce((acc, x) => acc + x, 0): f holds the elements,
\* ks the positions still to add
RECURSIVE SumOf(_, _)
SumOf(f, ks) ==
  IF ks = {} THEN I(0)
  ELSE LET k == CHOOSE j \in ks : TRUE
       IN RAdd(f[k], SumOf(f, ks \ {k}))

\* qty || 0 as a number
qtyOf(qty) ==
  LET v == OrElse(qty, Num(0))
  IN IF v.t = "num" THEN I(v.n) ELSE NaN

\* c.unitCost || 0 : undefined, NaN and 0 are falsy
unitCostOrZero(u) == IF IsFinite(u) THEN u ELSE I(0)

\* craftProfit({ productGrossSellPrice, feeRate, costs }): costs is the
\* array of cost entries, here indexed by material key
craftProfit(a) ==
  LET revenue == netSell(MathMax(I(0), a.productGrossSellPrice), a.feeRate)
      totalCost ==
        SumOf([k \in DOMAIN a.costs |->
                 RMul(unitCostOrZero(a.costs[k].unitCost), a.costs[k].qty)],
              DOMAIN a.costs)
  IN [revenue |-> revenue, totalCost |-> totalCost,
      profit |-> RSub(revenue, totalCost)]

\* s.modes[k] || "owned"
modeOf(s, k) ==
  LET m == OrElse(Get(Get(s, "modes"), k), Str("owned"))
  IN IF m.t = "str" THEN m.s ELSE String(m)

\* toNum(s.prices[k]?.market ?? 0)
marketOf(s, k) ==
  toNum(Coalesce(Get(Get(Get(s, "prices"), k), "market"), Num(0)), I(0))

\* sellIndivNet leaving out every material that is not "owned"
sellIndivNet_ownedOnly(s, feeRate, recipe) ==
  SumOf([k \in DOMAIN OwnProps(recipe) |->
           IF modeOf(s, k) # "owned" THEN I(0)
           ELSE RMul(qtyOf(OwnProps(recipe)[k]), netSell(marketOf(s, k), feeRate))],
        DOMAIN OwnProps(recipe))

\* compare.sellIndivNet(recipe)
sellIndivNet(s, feeRate, recipe) ==
  SumOf([k \in DOMAIN OwnProps(recipe) |->
           IF modeOf(s, k) = "buy" THEN I(0)
           ELSE RMul(qtyOf(OwnProps(recipe)[k]), netSell(marketOf(s, k), feeRate))],
        DOMAIN OwnProps(recipe))

\* one element of costs: { key: k, qty: qty || 0, unitCost, mode, market }
costEntry(c, k, qty, mode, market, feeRate) ==
  [key |-> k,
   qty |-> qty,
   unitCost |-> unitCostByModeOf(c, [mode |-> mode, marketPrice |-> market,
                                     feeRate |-> feeRate]),
   mode |-> mode,
   market |-> market]

\* costs.filter((c) => c.mode === "buy").map((c) => ({ key, qty }))
buyListOf(costs) ==
  {[key |-> k, qty |-> costs[k].qty] : k \in {j \in DOMAIN costs : costs[j].mode = "buy"}}

\* { ...craftProfit({ productGrossSellPrice, feeRate, costs }), costs, buyList }
craftResult(productGrossSellPrice, feeRate, costs) ==
  craftProfit([productGrossSellPrice |-> productGrossSellPrice,
               feeRate |-> feeRate, costs |-> costs])
  @@ [costs |-> costs, buyList |-> buyListOf(costs)]

\* compare.craft(productGrossPrice, recipe), run by copy c of the source
craft(c, s, feeRate, productGrossPrice, recipe) ==
  craftResult(toNum(productGrossPrice, I(0)), feeRate,
              [k \in DOMAIN OwnProps(recipe) |->
                 costEntry(c, k, qtyOf(OwnProps(recipe)[k]), modeOf(s, k),
                           marketOf(s, k), feeRate)])

\* compare.deltaByRounded(profit, sellIndivNet)
deltaByRounded(profit, sellIndiv) == RSub(MathRound(profit), MathRound(sellIndiv))

\* { ...x, sellIndivNet, deltaRevenueVsIndiv: deltaByRounded(x.profit, ...) }
compareRecord(x, indiv) ==
  x @@ [sellIndivNet |-> indiv,
        deltaRevenueVsIndiv |-> deltaByRounded(x.profit, indiv)]

\* one record of the value compare returns
compareRow(c, s, feeRate, productGrossPrice, recipe) ==
  compareRecord(craft(c, s, feeRate, productGrossPrice, recipe),
                sellIndivNet(s, feeRate, recipe))

\* the product price of a row: s.abilityGrossSell or s.lifeGrossSell[row]
productGrossPriceOf(s, row) ==
  IF row = "ability" THEN Get(s, "abilityGrossSell")
  ELSE Get(Get(s, "lifeGrossSell"), row)

\* the four records of compare, for the fee rate App hands to IngotPage
compareRows(c, s, feeRate) ==
  [row \in {"ability", "low", "mid", "high"} |->
     compareRow(c, s, feeRate, productGrossPriceOf(s, row),
                Get(Get(s, "recipes"), row))]

\* the value of the compare memo of IngotPage for live state s
compareOf(c, s) == compareRows(c, s, feeRateOf(s))

\* the last cell of a row of the comparison table favouring the sale on a tie
recommendation_strict(x) ==
  IF RLess(I(0), RSub(x.profit, x.sellIndivNet)) THEN "craft" ELSE "sellMaterials"

\* the last cell of a row of the comparison table: "craft" stands for the
\* label that says crafting pays, "sellMaterials" for the one that says
\* selling the materials pays
recommendation(x) ==
  IF RLeq(I(0), RSub(x.profit, x.sellIndivNet)) THEN "craft" ELSE "sellMaterials"

----------------------------------------------------------------------------
(* useLocalStorageState: each page load migrates what the previous one     *)
(* persisted (the effect writes JSON.stringify(state) back on every        *)
(* render, and JSON.parse of that text is the same tree)                   *)

\* the App component is not mounted: no listener, no timer, nothing written
AppNotMounted ==
  /\ shared = Undefined
  /\ snapPending = FALSE
  /\ suppressPriceWrite = FALSE
  /\ priceUpdateTimer = NoCall
  /\ lastWrite = NoCall
  /\ unsent = FALSE
  /\ appFeeRate = NoCall

InitMigrate ==
  /\ copy \in {"App.jsx", "part_001"}
  /\ raw \in RawDocs
  /\ doc = Undefined
  /\ prevDoc = Undefined
  /\ loads = 0
  /\ evArgs = NoCall /\ ev = NoCall /\ prevArgs = NoCall /\ prevEv = NoCall
  /\ costArgs = NoCall /\ unitCost = NoCall
  /\ compare = NoCall /\ call = NoCall /\ result = NoCall
  /\ AppNotMounted

Load ==
  /\ loads < MaxLoads
  /\ doc' = migrateState(IF loads = 0 THEN raw ELSE doc, defaultsOf(copy))
  /\ prevDoc' = doc
  /\ loads' = loads + 1
  /\ UNCHANGED <<copy, raw, evVars, costVars, callVars, appVars>>

NextMigrate == Load

SpecMigrate == InitMigrate /\ [][NextMigrate]_vars

----------------------------------------------------------------------------
(* Direct calls of miningEVBreakdown: each call changes one argument of    *)
(* the previous call                                                       *)

Probabilities ==
  {R(i, ProbSteps) : i \in -1..(ProbSteps + 1)} \cup {R(15, 100), NaN}

EVArgChoices ==
  [staminaPerDig |-> {I(10), I(0), I(-3), R(1, 2)},
   shardsPerDig |-> {I(12), I(0), I(-1)},
   shardsPerIngot |-> {I(16), I(0), R(1, 2), I(-2)},
   ingotGrossPrice |-> {I(6000)},
   gemDropProb |-> {R(10, 100), I(2)},
   gemDropCount |-> {I(2), I(-1)},
   gemGrossPrice |-> {I(12000)},
   flamingIngotProb |-> Probabilities,
   sellFeeRate |-> {R(5, 100)}]

EVArgNames == DOMAIN EVArgChoices

InitEV ==
  /\ copy = "App.jsx"
  /\ raw = Undefined /\ doc = Undefined /\ prevDoc = Undefined /\ loads = 0
  /\ evArgs = [staminaPerDig |-> I(10), shardsPerDig |-> I(12),
               shardsPerIngot |-> I(16), ingotGrossPrice |-> I(6000),
               gemDropProb |-> R(10, 100), gemDropCount |-> I(2),
               gemGrossPrice |-> I(12000), flamingIngotProb |-> I(0),
               sellFeeRate |-> R(5, 100)]
  /\ ev = miningEVBreakdown(evArgs)
  /\ prevArgs = NoCall /\ prevEv = NoCall
  /\ costArgs = NoCall /\ unitCost = NoCall
  /\ compare = NoCall /\ call = NoCall /\ result = NoCall
  /\ AppNotMounted

CallMiningEV(name, v) ==
  /\ v # evArgs[name]
  /\ evArgs' = [evArgs EXCEPT ![name] = v]
  /\ ev' = miningEVBreakdown(evArgs')
  /\ prevArgs' = evArgs
  /\ prevEv' = ev
  /\ UNCHANGED <<copy, doc, migrateVars, costVars, callVars, appVars>>

NextEV == \E name \in EVArgNames : \E v \in EVArgChoices[name] : CallMiningEV(name, v)

SpecEV == InitEV /\ [][NextEV]_vars

----------------------------------------------------------------------------
(* PotionPage: the user edits the profile and the market fields of the     *)
(* live state, and the page recomputes the EV breakdown from it            *)

SelectChoices ==
  [sageEnhLevel |-> {Num(i) : i \in 5..15},
   gemExpertLevel |-> {Num(i) : i \in 0..3},
   flamingPickLevel |-> {Num(i) : i \in 0..10}]

TextChoices ==
  [staminaPerDig |-> {"10", " 2.5 "},
   feePct |-> {"5", "80"}]

InitPotion ==
  /\ copy = "App.jsx"
  /\ raw = Undefined /\ prevDoc = Undefined /\ loads = 0
  /\ doc = defaultState
  /\ evArgs = potionEVArgs(doc)
  /\ ev = miningEVBreakdown(evArgs)
  /\ prevArgs = NoCall /\ prevEv = NoCall
  /\ costArgs = NoCall /\ unitCost = NoCall
  /\ compare = NoCall /\ call = NoCall /\ result = NoCall
  /\ AppNotMounted

\* setS((p) => ({ ...p, [name]: v })) followed by the render of PotionPage
SetField(name, v) ==
  /\ v # Get(doc, name)
  /\ doc' = With(doc, name, v)
  /\ evArgs' = potionEVArgs(doc')
  /\ ev' = miningEVBreakdown(evArgs')
  /\ UNCHANGED <<copy, migrateVars, prevArgs, prevEv, costVars, callVars, appVars>>

\* Select.handleChange: the chosen option value, a number
SelectLevel ==
  \E name \in DOMAIN SelectChoices : \E v \in SelectChoices[name] : SetField(name, v)

\* Field.onChange: the text as typed
TypeText ==
  \E name \in DOMAIN TextChoices : \E x \in TextChoices[name] : SetField(name, Str(x))

NextPotion == SelectLevel \/ TypeText

SpecPotion == InitPotion /\ [][NextPotion]_vars

----------------------------------------------------------------------------
(* Direct calls of unitCostByMode, in either copy of the source            *)

MarketRates == {I(3000 * i) : i \in 0..MaxRate} \cup {I(773), R(1, 2)}
FeeRates == {R(i, ProbSteps) : i \in 0..ProbSteps} \cup {R(5, 100)}
Modes == {"owned", "buy", "opportunity"}

InitCost ==
  /\ copy \in {"App.jsx", "part_001"}
  /\ raw = Undefined /\ doc = Undefined /\ prevDoc = Undefined /\ loads = 0
  /\ evArgs = NoCall /\ ev = NoCall /\ prevArgs = NoCall /\ prevEv = NoCall
  /\ costArgs = NoCall /\ unitCost = NoCall
  /\ compare = NoCall /\ call = NoCall /\ result = NoCall
  /\ AppNotMounted

CallUnitCost(mode, marketPrice, feeRate) ==
  /\ costArgs' = [mode |-> mode, marketPrice |-> marketPrice, feeRate |-> feeRate]
  /\ unitCost' = unitCostByModeOf(copy, costArgs')
  /\ UNCHANGED <<copy, doc, migrateVars, evVars, callVars, appVars>>

NextCost ==
  \E mode \in Modes : \E m \in MarketRates : \E f \in FeeRates :
    CallUnitCost(mode, m, f)

SpecCost == InitCost /\ [][NextCost]_vars

----------------------------------------------------------------------------
(* ProfilePage and IngotPage: the user edits material prices, supply modes, *)
(* product prices and the fee, and IngotPage recomputes the comparison      *)

materialKeysForUI ==
  {"ingot", "diamond", "gold", "iron", "lapis", "amethyst", "copper",
   "redstone", "stone", "deepCobble"}

\* the supply mode each option value of the mode select stands for
ModeOptions == [v \in 0..2 |-> IF v = 0 THEN "owned" ELSE IF v = 1 THEN "buy" ELSE "opportunity"]

\* the materials and products whose fields the model edits, and the texts
\* it types into them
EditedMaterials == {"ingot", "diamond"}
PricedMaterials == {"ingot"}
PriceTexts == {"6000", "", "37"}
ProductPriceTexts == {"18000", "-100", "221"}
FeeTexts == {"5", "0"}

InitIngot ==
  /\ copy \in {"App.jsx", "part_001"}
  /\ raw = Undefined /\ prevDoc = Undefined /\ loads = 0
  /\ doc = defaultsOf(copy)
  /\ evArgs = NoCall /\ ev = NoCall /\ prevArgs = NoCall /\ prevEv = NoCall
  /\ costArgs = NoCall /\ unitCost = NoCall
  /\ compare = compareOf(copy, doc)
  /\ call = NoCall /\ result = NoCall
  /\ AppNotMounted

\* setS(...) followed by the render of IngotPage
SetState(s) ==
  /\ doc' = s
  /\ compare' = compareOf(copy, s)
  /\ UNCHANGED <<copy, migrateVars, evVars, costVars, call, result, appVars>>

\* the mode select of one material
SetMode ==
  \E k \in EditedMaterials : \E v \in DOMAIN ModeOptions :
    SetState(With(doc, "modes", With(Get(doc, "modes"), k, Str(ModeOptions[v]))))

\* the bulk mode select: "all_owned" or "all_buy" ("custom" changes nothing)
SetAllModes ==
  \E v \in {"all_owned", "all_buy"} :
    LET mode == IF v = "all_buy" THEN "buy" ELSE "owned"
        old == OwnProps(Get(doc, "modes"))
    IN SetState(With(doc, "modes",
                     Obj([k \in DOMAIN old \cup materialKeysForUI |->
                            IF k \in materialKeysForUI THEN Str(mode) ELSE old[k]])))

\* the market price field of one material
TypePrice ==
  \E k \in PricedMaterials : \E x \in PriceTexts :
    SetState(With(doc, "prices",
                  With(Get(doc, "prices"), k, Obj([market |-> Str(x)]))))

\* the ability stone price field of IngotPage
TypeProductPrice ==
  \E x \in ProductPriceTexts : SetState(With(doc, "abilityGrossSell", Str(x)))

\* the fee field
TypeFee == \E x \in FeeTexts : SetState(With(doc, "feePct", Str(x)))

NextIngot == SetMode \/ SetAllModes \/ TypePrice \/ TypeProductPrice \/ TypeFee

SpecIngot == InitIngot /\ [][NextIngot]_vars

----------------------------------------------------------------------------
(* Direct calls of the utilities and the rule tables, and the blur handler  *)
(* of a numeric field                                                        *)

MaxPlaces == 8   \* decimal places of the numbers String() is applied to
MaxLevel == 16   \* numeric levels range over -1..MaxLevel

\* Field.sanitizeOnBlur: the text it hands to onChange
sanitizeOnBlur(value, min, max) ==
  LET n == toNum(value, NaN)
      v1 == IF IsFinite(min) THEN MathMax(min, n) ELSE n
      v2 == IF IsFinite(max) THEN MathMin(max, v1) ELSE v1
  IN IF ~IsFinite(n) THEN Str("") ELSE Str(NumberToString(v2))

\* the fallbacks the program passes to toNum: none (0), 10, 16, 0 and NaN
Fallbacks == {I(0), I(10), I(16), NaN}

ToNumTexts ==
  {"", "   ", "-", ".", "-.", " - ", "abc", "12px", "1,000", "1e", "NaN",
   "Infinity", "-Infinity", "1e999",
   "5", " 2.5 ", "-0.5", "+7", ".5", "5.", "6000", "1e3", "1.5e-7", "0x1F"}

ToNumInputs ==
  {Undefined, Null, Bool(TRUE), Obj(EmptyProps), Arr(<<>>),
   Num(0), Num(7), Num(-3),
   NonFinite("NaN"), NonFinite("Infinity"), NonFinite("-Infinity")}
  \cup {Str(x) : x \in ToNumTexts}

FiniteNumbers ==
  {R(i, Pow10(k)) : i \in {-25, -1, 0, 1, 3, 6000}, k \in 0..MaxPlaces}

RuleLevels ==
  {Num(i) : i \in -1..MaxLevel}
  \cup {Undefined, Null, Str("3"), Str("15"), Str("abc"), Str("constructor"),
        NonFinite("NaN"), NonFinite("Infinity")}

BlurValues ==
  {Str("80"), Str("abc"), Str(""), Str(" 2.5 "), Str("-4"), Str("1e-7"),
   Num(7), Undefined}
BlurLimits == {Undefined, I(0), I(1), I(50)}

InitCalls ==
  /\ copy = "App.jsx"
  /\ raw = Undefined /\ doc = Undefined /\ prevDoc = Undefined /\ loads = 0
  /\ evArgs = NoCall /\ ev = NoCall /\ prevArgs = NoCall /\ prevEv = NoCall
  /\ costArgs = NoCall /\ unitCost = NoCall
  /\ compare = NoCall /\ call = NoCall /\ result = NoCall
  /\ AppNotMounted

Returns(fn, args, from, value) ==
  /\ call' = [fn |-> fn, args |-> args, from |-> from]
  /\ result' = value
  /\ UNCHANGED <<copy, doc, migrateVars, evVars, costVars, compare, appVars>>

\* toNum(v, fallback)
CallToNum ==
  \E v \in ToNumInputs : \E fallback \in Fallbacks :
    Returns("toNum", <<v, fallback>>, NoCall, toNum(v, fallback))

\* toNum(String(n), fallback)
CallToNumOfString ==
  \E n \in FiniteNumbers : \E fallback \in Fallbacks :
    Returns("toNum", <<Str(NumberToString(n)), fallback>>, n,
            toNum(Str(NumberToString(n)), fallback))

\* the blur of a Field holding value, with the limits min and max
Blur ==
  \E value \in BlurValues : \E min \in BlurLimits : \E max \in BlurLimits :
    Returns("sanitizeOnBlur", <<value, min, max>>, NoCall,
            sanitizeOnBlur(value, min, max))

CallFlamingPickRule ==
  \E level \in RuleLevels :
    Returns("flamingPickRule", <<level>>, NoCall, flamingPickRule(level))

CallGemExpertRule ==
  \E level \in RuleLevels :
    Returns("gemExpertRule", <<level>>, NoCall, gemExpertRule(level))

\* SAGE_SHARDS_BY_ENH[level] ?? 0
LookupShards ==
  \E level \in RuleLevels :
    Returns("shardsPerDig", <<level>>, NoCall, shardsPerDigOf(level))

\* the base of a direct deepMerge call: part of the default document
MergeBase ==
  Obj([feePct |-> Str("5"),
       prices |-> Obj([ingot |-> Obj([market |-> Str("6000")]),
                       stone |-> Obj([market |-> Str("773")])]),
       feedbacks |-> Obj([nextId |-> Num(1), items |-> Arr(<<>>)])])

\* the patches of a direct deepMerge call: what JSON.parse can return
MergePatches ==
  {Obj(f @@ p @@ b @@ x) :
     f \in {Absent, Field("feePct", Str("7")), Field("feePct", Null),
            Field("feePct", Obj([pct |-> Num(7)]))},
     p \in {Absent,
            Field("prices", Obj([ingot |-> Obj([market |-> Str("6500")])])),
            Field("prices", Obj([zinc |-> Obj([market |-> Str("40")]),
                                 stone |-> Num(800)])),
            Field("prices", Arr(<<Str("x")>>)),
            Field("prices", Null),
            Field("prices", Str("ab"))},
     b \in {Absent, Field("feedbacks", Obj([items |-> Arr(<<Str("hi")>>)]))},
     x \in {Absent, Field("legacyField", Str("old")),
            Field("__proto__", Obj([legacyField |-> Str("old")]))}}

\* deepMerge(base, patch)
CallDeepMerge ==
  \E patch \in MergePatches :
    Returns("deepMerge", <<MergeBase, patch>>, NoCall, deepMerge(MergeBase, patch))

NextCalls ==
  \/ CallDeepMerge
  \/ CallToNum
  \/ CallToNumOfString
  \/ Blur
  \/ CallFlamingPickRule
  \/ CallGemExpertRule
  \/ LookupShards

SpecCalls == InitCalls /\ [][NextCalls]_vars

----------------------------------------------------------------------------
(* Properties of the migration engine *)

Loaded == loads >= 1

\* C1: migrateState is idempotent: migrating the document a previous load
\* produced gives a deep-equal document, whatever the raw document was.
C1_MigrateIdempotent == loads >= 2 => doc = prevDoc

C1_Witness ==
  /\ loads = 2
  /\ isPlainObject(raw)
  /\ incomingVerOf(raw) < 2
  /\ "legacyField" \in DOMAIN doc.o
  /\ Get(raw, "prices") # Undefined
  /\ doc # defaultsOf(copy)

\* C2: the migrated document's schemaVersion equals defaults.schemaVersion
\* (4) whatever the raw schemaVersion was: absent, non-numeric, 0,
\* intermediate, current or greater than current.
C2_VersionStamped ==
  Loaded => /\ Get(doc, "schemaVersion") = Get(defaultsOf(copy), "schemaVersion")
            /\ Get(doc, "schemaVersion") = Num(4)

C2_Witness ==
  /\ loads = 1
  /\ Get(raw, "schemaVersion").t = "num"
  /\ Get(raw, "schemaVersion").n > 4
  /\ Get(doc, "schemaVersion") = Num(4)

\* every key path of d leads to a value other than undefined in x
RECURSIVE HasPaths(_, _)
HasPaths(d, x) ==
  \A k \in DOMAIN d.o :
    /\ Get(x, k) # Undefined
    /\ isPlainObject(d.o[k]) => HasPaths(d.o[k], Get(x, k))

CalculatorFields ==
  {"sageEnhLevel", "gemExpertLevel", "flamingPickLevel", "staminaPerDig",
   "shardsPerIngot", "prices", "modes", "recipes"}

\* C3: after migrating a plain-object or nullish raw value, every key path
\* of the default document of the current schema has a value and every
\* field the calculators read is defined.
C3_AllFieldsPresent ==
  (Loaded /\ (isPlainObject(raw) \/ IsNullish(raw)))
    => /\ HasPaths(defaultState, doc)
       /\ \A k \in CalculatorFields : Get(doc, k) # Undefined

\* C4: the empty object and every value that is not a plain object migrate
\* to a document deep-equal to the default document, at schemaVersion 4.
C4_EmptyGivesDefaults ==
  (Loaded /\ (raw = Obj(EmptyProps) \/ ~isPlainObject(raw)))
    => /\ doc = defaultsOf(copy)
       /\ Get(doc, "schemaVersion") = Num(4)

C4_Witness ==
  /\ loads = 1
  /\ raw = Arr(<<Str("x")>>)
  /\ doc = defaultsOf(copy)

\* a present (non-nullish) property
Has(x, k) == ~IsNullish(Get(x, k))

\* a legacy price entry: an object with grossSell and/or buy and no market
IsLegacyEntry(v) ==
  /\ isPlainObject(v)
  /\ "market" \notin DOMAIN v.o
  /\ Has(v, "grossSell") \/ Has(v, "buy")

LegacyMarket(v) ==
  IF Has(v, "grossSell") THEN String(Get(v, "grossSell"))
  ELSE IF Has(v, "buy") THEN String(Get(v, "buy"))
  ELSE "0"

\* C5: for a raw document below version 2, every legacy prices entry
\* {grossSell, buy} migrates to exactly {market: string of grossSell, else
\* of buy, else "0"}, for every resource key, default keys included.
C5_LegacyPriceMigrated ==
  (loads = 1 /\ isPlainObject(raw) /\ incomingVerOf(raw) < 2
     /\ isPlainObject(Get(raw, "prices")))
    => \A k \in DOMAIN Get(raw, "prices").o :
         IsLegacyEntry(Get(raw, "prices").o[k])
           => Get(Get(doc, "prices"), k)
                = Obj([market |-> Str(LegacyMarket(Get(raw, "prices").o[k]))])

----------------------------------------------------------------------------
(* Properties of miningEVBreakdown *)

Called == evArgs # NoCall

\* the un-reduced normal yield max(0, shardsPerDig) / max(1, shardsPerIngot)
NormalYield(a) ==
  RDiv(MathMax(I(0), a.shardsPerDig), MathMax(I(1), a.shardsPerIngot))

\* the replacement probability limited to [0, 1]: 0 below 0 or not a
\* number, 1 above 1
ClaimP(a) ==
  IF ~IsFinite(a.flamingIngotProb) \/ RLess(a.flamingIngotProb, I(0)) THEN I(0)
  ELSE IF RLess(I(1), a.flamingIngotProb) THEN I(1)
  ELSE a.flamingIngotProb

\* C6: replacement semantics: the normal-path yield is (1 - p) * normal
\* yield, the replacement-path yield is p * 1, their sum is the total
\* yield, and that total is below the additive normal + p whenever the
\* replacement can happen and the normal path yields anything.
C6_ReplacementSemantics ==
  Called =>
    LET p == ClaimP(evArgs)
        n0 == NormalYield(evArgs)
        total == RAdd(ev.ingotFromShardsPerDig, ev.ingotFromFlamePerDig)
    IN /\ ev.ingotFromShardsPerDig = RSub(n0, RMul(p, n0))
       /\ ev.ingotFromFlamePerDig = p
       /\ total = RAdd(RMul(RSub(I(1), p), n0), p)
       /\ (RLess(I(0), p) /\ RLess(I(0), n0)) => RLess(total, RAdd(n0, p))

C6_Witness ==
  /\ Called
  /\ evArgs.flamingIngotProb = R(15, 100)
  /\ evArgs.shardsPerDig = I(12)
  /\ evArgs.shardsPerIngot = I(16)
  /\ ev.ingotFromShardsPerDig = R(51, 80)
  /\ ev.ingotFromFlamePerDig = R(15, 100)

\* the latest two calls differ in flamingIngotProb and in nothing else
OnlyProbChanged ==
  /\ prevArgs # NoCall
  /\ prevArgs.flamingIngotProb # evArgs.flamingIngotProb
  /\ \A name \in EVArgNames \ {"flamingIngotProb"} : prevArgs[name] = evArgs[name]

InUnit(x) == IsFinite(x) /\ RLeq(I(0), x) /\ RLeq(x, I(1))

\* the latest call has the larger p, both in [0, 1]
ProbGrew ==
  /\ OnlyProbChanged
  /\ InUnit(prevArgs.flamingIngotProb)
  /\ InUnit(evArgs.flamingIngotProb)
  /\ RLess(prevArgs.flamingIngotProb, evArgs.flamingIngotProb)

\* C7 as stated: with the other inputs fixed the normal-path yield strictly
\* decreases as p grows in [0, 1], and is exactly 0 at p = 1.
C7_StrictlyDecreasing ==
  /\ ProbGrew => RLess(ev.ingotFromShardsPerDig, prevEv.ingotFromShardsPerDig)
  /\ (Called /\ evArgs.flamingIngotProb = I(1)) => ev.ingotFromShardsPerDig = I(0)

\* C7 amended: the normal-path yield strictly decreases as p grows in [0, 1]
\* when shardsPerDig > 0, is 0 for every p when shardsPerDig <= 0, and is
\* exactly 0 at p = 1.
C7_DecreasingWhenShards ==
  /\ (ProbGrew /\ RLess(I(0), evArgs.shardsPerDig))
       => RLess(ev.ingotFromShardsPerDig, prevEv.ingotFromShardsPerDig)
  /\ (Called /\ RLeq(evArgs.shardsPerDig, I(0))) => ev.ingotFromShardsPerDig = I(0)
  /\ (Called /\ evArgs.flamingIngotProb = I(1)) => ev.ingotFromShardsPerDig = I(0)

C7_Witness ==
  /\ ProbGrew
  /\ evArgs.flamingIngotProb = I(1)
  /\ evArgs.shardsPerDig = I(12)
  /\ RLess(I(0), prevEv.ingotFromShardsPerDig)
  /\ ev.ingotFromShardsPerDig = I(0)

\* C8: the secondary drop is independent of the replacement probability:
\* two calls that differ only in flamingIngotProb return the same
\* gemValuePerDig, which is clamp01(gemDropProb) * max(0, gemDropCount) *
\* gemNet.
C8_GemIndependent ==
  /\ OnlyProbChanged => ev.gemValuePerDig = prevEv.gemValuePerDig
  /\ Called =>
       ev.gemValuePerDig =
         RMul(RMul(MathMax(I(0), MathMin(I(1), evArgs.gemDropProb)),
                   MathMax(I(0), evArgs.gemDropCount)),
              RMul(MathMax(I(0), evArgs.gemGrossPrice),
                   RSub(I(1), evArgs.sellFeeRate)))

C8_Witness ==
  /\ OnlyProbChanged
  /\ evArgs.flamingIngotProb = I(1)
  /\ prevArgs.flamingIngotProb = R(15, 100)
  /\ ev.gemValuePerDig = I(2280)

\* the state of the EV scenario: enhancement level 15, fire-skill level 10,
\* stamina 10, 16 shards per ingot, ingot price 6000, fee 5%
EVScenario ==
  /\ Called
  /\ isPlainObject(doc)
  /\ Get(doc, "sageEnhLevel") = Num(15)
  /\ Get(doc, "flamingPickLevel") = Num(10)
  /\ Get(doc, "staminaPerDig") = Str("10")
  /\ Get(doc, "shardsPerIngot") = Str("16")
  /\ Get(doc, "ingotGrossPrice") = Str("6000")
  /\ Get(doc, "feePct") = Str("5")

EVScenarioYields ==
  /\ evArgs.shardsPerDig = I(12)
  /\ evArgs.flamingIngotProb = R(15, 100)
  /\ ev.ingotFromShardsPerDig = R(6375, 10000)
  /\ ev.ingotFromFlamePerDig = R(15, 100)
  /\ ev.ingotNet = I(5700)

\* C9 as stated: in the EV scenario the yields are 0.6375 and 0.15, the net
\* price 5700, and normal-path value + replacement-path value is 4493.25.
C9_ScenarioAsStated ==
  EVScenario =>
    /\ EVScenarioYields
    /\ RAdd(ev.ingotFromShardsValuePerDig, ev.ingotFromFlameValuePerDig)
         = R(449325, 100)

\* C9 amended: in the EV scenario the yields are 0.6375 and 0.15, the net
\* price 5700, and normal-path value + replacement-path value is 4488.75.
C9_Scenario ==
  EVScenario =>
    /\ EVScenarioYields
    /\ RAdd(ev.ingotFromShardsValuePerDig, ev.ingotFromFlameValuePerDig)
         = R(448875, 100)

C9_Witness ==
  /\ EVScenario
  /\ ev.ingotFromShardsValuePerDig = R(363375, 100)
  /\ ev.ingotFromFlameValuePerDig = I(855)

----------------------------------------------------------------------------
(* Properties of unitCostByMode *)

\* C10: in every copy, unitCostByMode is 0 for owned, the market rate for
\* buy and market rate * (1 - feeRate) for opportunity, for non-negative
\* rates and fee rates in [0, 1].
C10_UnitCostByMode ==
  costArgs # NoCall =>
    unitCost = CASE costArgs.mode = "owned" -> I(0)
                 [] costArgs.mode = "buy" -> costArgs.marketPrice
                 [] costArgs.mode = "opportunity" ->
                      RMul(costArgs.marketPrice, RSub(I(1), costArgs.feeRate))

----------------------------------------------------------------------------
(* Properties of the crafting comparison *)

Compared == compare # NoCall

\* the crafting scenario: the ability stone, made of 3 ingots priced 6000
\* in mode "opportunity", fee 5%, product price 18000
IngotScenario ==
  /\ Compared
  /\ DOMAIN compare.ability.costs = {"ingot"}
  /\ compare.ability.costs["ingot"].qty = I(3)
  /\ compare.ability.costs["ingot"].market = I(6000)
  /\ compare.ability.costs["ingot"].mode = "opportunity"
  /\ feeRateOf(doc) = R(5, 100)
  /\ toNum(Get(doc, "abilityGrossSell"), I(0)) = I(18000)

\* C11: in the crafting scenario the comparison reports total cost 17100,
\* revenue 17100, profit 0, raw-sell baseline 17100, a delta of profit
\* against baseline of 0, and recommends crafting.
C11_CraftingScenario ==
  IngotScenario =>
    /\ compare.ability.totalCost = I(17100)
    /\ compare.ability.revenue = I(17100)
    /\ compare.ability.profit = I(0)
    /\ compare.ability.sellIndivNet = I(17100)
    /\ compare.ability.deltaRevenueVsIndiv = I(0)
    /\ recommendation(compare.ability) = "craft"

\* profit - sellIndivNet of one row of the comparison
Margin(x) == RSub(x.profit, x.sellIndivNet)

\* C12: for every recipe the recommendation is crafting exactly when
\* profit minus baseline is at least 0 and selling the materials exactly
\* when it is below 0; a difference of exactly 0 recommends crafting.
C12_Recommendation ==
  Compared =>
    \A r \in DOMAIN compare :
      /\ recommendation(compare[r]) = "craft" <=> RLeq(I(0), Margin(compare[r]))
      /\ recommendation(compare[r]) = "sellMaterials" <=> RLess(Margin(compare[r]), I(0))
      /\ Margin(compare[r]) = I(0) => recommendation(compare[r]) = "craft"

\* a comparison table with a tie in one row and a row where crafting pays
\* strictly
C12_Witness ==
  /\ Compared
  /\ copy = "App.jsx"
  /\ \E r \in DOMAIN compare :
       Margin(compare[r]) = I(0) /\ recommendation(compare[r]) = "craft"
  /\ \E r \in DOMAIN compare : RLess(I(0), Margin(compare[r]))

----------------------------------------------------------------------------
(* Properties of toNum and of the blur handler *)

IsCall(fn) == call # NoCall /\ call.fn = fn

\* C13: toNum(v, fallback) returns a finite number for every input v and
\* every fallback the program passes to it, the NaN that
\* Field.sanitizeOnBlur passes included.
C13_ToNumFinite ==
  IsCall("toNum") => IsFinite(result)

\* C13, amended: toNum returns a finite number whenever the fallback is
\* finite; with the NaN fallback of Field.sanitizeOnBlur it returns a finite
\* number or that NaN, and the handler then writes the empty text or the
\* text of a finite number.
C13_ToNumFiniteWhenFallbackIs ==
  /\ IsCall("toNum") =>
       /\ IsFinite(call.args[2]) => IsFinite(result)
       /\ call.args[2] = NaN => IsFinite(result) \/ result = NaN
  /\ IsCall("sanitizeOnBlur") =>
       \/ result = Str("") /\ toNum(call.args[1], NaN) = NaN
       \/ result.t = "str" /\ IsFinite(toNum(result, NaN))
            /\ IsFinite(toNum(call.args[1], NaN))

\* toNum handed a text with no numeric reading and the fallback 10
C13_Witness ==
  /\ IsCall("toNum")
  /\ call.args = <<Str("12px"), I(10)>>
  /\ result = I(10)

\* C14: for every finite number n and every fallback,
\* toNum(String(n), fallback) is n.
C14_RoundTrip ==
  (IsCall("toNum") /\ call.from # NoCall) => result = call.from

\* a number below 10^-6, which String writes in exponent notation, read
\* back with the NaN fallback
C14_Witness ==
  /\ IsCall("toNum")
  /\ call.from = R(-25, Pow10(8))
  /\ call.args = <<Str("-2.5e-7"), NaN>>
  /\ result = R(-25, Pow10(8))

----------------------------------------------------------------------------
(* Properties of the baseline and of the crafting profit *)

\* quantity * market rate * (1 - feeRate) of one material of a row
NetSaleOf(entry) ==
  RMul(RMul(entry.qty, entry.market), RSub(I(1), feeRateOf(doc)))

\* C15: the raw-sell baseline of a recipe is the sum, over the recipe
\* entries whose supply mode is not "buy" ("owned" and "opportunity" both
\* included), of quantity * market rate * (1 - feeRate); "buy" entries
\* contribute 0.
C15_Baseline ==
  Compared =>
    \A r \in DOMAIN compare :
      compare[r].sellIndivNet =
        SumOf([k \in DOMAIN compare[r].costs |->
                 IF compare[r].costs[k].mode = "buy" THEN I(0)
                 ELSE NetSaleOf(compare[r].costs[k])],
              DOMAIN compare[r].costs)

\* after an edit, a recipe holding an "opportunity", a "buy" and an "owned"
\* material: 2 * 5700 + 2 * 266.95 + 5 * 665 + 5 * 95 = 15733.9
C15_Witness ==
  /\ Compared
  /\ Get(doc, "abilityGrossSell") = Str("-100")
  /\ compare.mid.costs["ingot"].mode = "opportunity"
  /\ compare.mid.costs["diamond"].mode = "buy"
  /\ compare.mid.costs["iron"].mode = "owned"
  /\ compare.mid.sellIndivNet = R(157339, 10)

\* the unit cost by supply mode: "owned" 0, "buy" the market rate,
\* "opportunity" the market rate * (1 - feeRate)
ClaimedUnitCost(entry) ==
  IF entry.mode = "owned" THEN I(0)
  ELSE IF entry.mode = "buy" THEN entry.market
  ELSE RMul(entry.market, RSub(I(1), feeRateOf(doc)))

\* the gross product price of a row of the comparison, as typed
GrossPriceOf(r) ==
  IF r = "ability" THEN toNum(Get(doc, "abilityGrossSell"), I(0))
  ELSE toNum(Get(Get(doc, "lifeGrossSell"), r), I(0))

\* C16: for every recipe and every assignment of supply modes, the total
\* cost is the sum over the recipe entries of the unit cost of the entry's
\* mode times its quantity, the revenue is max(0, gross price) *
\* (1 - feeRate), and the profit is revenue minus total cost.
C16_CraftProfit ==
  Compared =>
    \A r \in DOMAIN compare :
      /\ compare[r].totalCost =
           SumOf([k \in DOMAIN compare[r].costs |->
                    RMul(ClaimedUnitCost(compare[r].costs[k]),
                         compare[r].costs[k].qty)],
                 DOMAIN compare[r].costs)
      /\ compare[r].revenue =
           RMul(MathMax(I(0), GrossPriceOf(r)), RSub(I(1), feeRateOf(doc)))
      /\ compare[r].profit = RSub(compare[r].revenue, compare[r].totalCost)

\* the numbers some of the texts handed to toNum stand for
KnownReadings ==
  ("5" :> I(5)) @@ (" 2.5 " :> R(5, 2)) @@ ("-0.5" :> R(-1, 2))
  @@ ("+7" :> I(7)) @@ (".5" :> R(1, 2)) @@ ("5." :> I(5))
  @@ ("6000" :> I(6000)) @@ ("1e3" :> I(1000))
  @@ ("1.5e-7" :> R(15, Pow10(8))) @@ ("0x1F" :> I(31))

\* the texts handed to toNum that have no finite numeric reading
UnreadableTexts ==
  {"", "   ", "-", ".", "-.", " - ", "abc", "12px", "1,000", "1e", "NaN",
   "Infinity", "-Infinity", "1e999"}

\* C17: toNum returns the fallback, not 0, when the input is neither a
\* string nor a number, is a non-finite number, or is a string that after
\* trimming is empty, "-", ".", "-." or does not parse to a finite number;
\* for every other string it returns the parsed number.
C17_ToNumFallback ==
  (IsCall("toNum") /\ call.from = NoCall) =>
    LET v == call.args[1]
        fallback == call.args[2]
    IN /\ v.t \notin {"num", "nonfinite", "str"} => result = fallback
       /\ v.t = "nonfinite" => result = fallback
       /\ v.t = "str" /\ Trim(v.s) \in {"", "-", ".", "-."} => result = fallback
       /\ v.t = "str" /\ v.s \in UnreadableTexts => result = fallback
       /\ v.t = "str" /\ v.s \in DOMAIN KnownReadings => result = KnownReadings[v.s]
       /\ v.t = "str" => v.s \in UnreadableTexts \cup DOMAIN KnownReadings
       /\ v.t = "str" /\ Trim(v.s) \notin {"", "-", ".", "-."} =>
            result = IF IsFinite(NumberOf(Trim(v.s)))
                     THEN NumberOf(Trim(v.s)) ELSE fallback

\* a text that does not parse, read with the fallback 10
C17_Witness ==
  /\ IsCall("toNum")
  /\ call.from = NoCall
  /\ call.args = <<Str("1,000"), I(10)>>
  /\ result = I(10)

----------------------------------------------------------------------------
(* Properties of the rule tables *)

\* C18: flamingPickRule maps the levels 1 to 9 to level / 100, level 10 to
\* 0.15, and every level that is at most 0 or not a finite number to 0;
\* the replacement quantity is 1 for every level.
C18_FlamingPickRule ==
  IsCall("flamingPickRule") =>
    LET level == call.args[1]
    IN /\ level.t = "num" /\ level.n \in 1..9 => result.prob = R(level.n, 100)
       /\ level = Num(10) => result.prob = R(15, 100)
       /\ level.t = "num" /\ level.n <= 0 => result.prob = I(0)
       /\ level.t # "num" => result.prob = I(0)
       /\ result.ingots = I(1)

\* the jump at level 10
C18_Witness ==
  /\ IsCall("flamingPickRule")
  /\ call.args = <<Num(10)>>
  /\ result = [prob |-> R(15, 100), ingots |-> I(1)]

\* the texts of the keys of SAGE_SHARDS_BY_ENH
TableLevels == {ToString(i) : i \in 5..15}

\* C19: out-of-table lookups have zero effect: an enhancement level
\* outside 5..15 gives 0 shards, a gem-skill level outside {1, 2, 3} gives
\* probability 0 and count 0, and a fire-skill level outside 0..10 gives
\* replacement probability 0.
C19_OutOfTable ==
  /\ IsCall("shardsPerDig") =>
       (String(call.args[1]) \notin TableLevels => result = I(0))
  /\ IsCall("gemExpertRule") =>
       (call.args[1] \notin {Num(1), Num(2), Num(3)} =>
          result = [prob |-> I(0), count |-> I(0)])
  /\ IsCall("flamingPickRule") =>
       (~(call.args[1].t = "num" /\ call.args[1].n \in 0..10) =>
          result.prob = I(0))

----------------------------------------------------------------------------
(* Properties of the floors of miningEVBreakdown *)

----------------------------------------------------------------------------
(* Properties of deepMerge and of the version gating *)

\* out is base merged with patch as described: every key of either side,
\* recursion where both sides hold a plain object, the patch value otherwise
RECURSIVE MergedKeepingBoth(_, _, _)
MergedKeepingBoth(base, patch, out) ==
  /\ out.t = "obj"
  /\ DOMAIN out.o = DOMAIN base.o \cup DOMAIN patch.o
  /\ \A k \in DOMAIN out.o :
       IF k \notin DOMAIN patch.o THEN out.o[k] = base.o[k]
       ELSE IF /\ k \in DOMAIN base.o
               /\ base.o[k].t = "obj"
               /\ patch.o[k].t = "obj"
            THEN MergedKeepingBoth(base.o[k], patch.o[k], out.o[k])
            ELSE out.o[k] = patch.o[k]

\* C21: deepMerge(defaults, raw) keeps every key of either side, recurses
\* where both sides hold a plain object, and lets an array or any other
\* value of the raw side replace the default value outright.
C21_DeepMerge ==
  IsCall("deepMerge") =>
    MergedKeepingBoth(call.args[1], call.args[2], result)

\* the incoming version as described: the schemaVersion of the raw document,
\* 0 when it is absent or not a number
ClaimedVersion(r) ==
  IF Get(r, "schemaVersion").t = "num" THEN Get(r, "schemaVersion").n ELSE 0

FourFlagsOff ==
  Obj([p100 |-> Bool(FALSE), p300 |-> Bool(FALSE),
       p500 |-> Bool(FALSE), p700 |-> Bool(FALSE)])

\* C22: migrateState applies the transform k -> k+1 (k = 0..3) exactly when
\* the incoming version is below k+1; a document already at the defaults'
\* version passes through no transform and comes out as deepMerge(defaults,
\* raw).  Each transform is observed on a raw field it alone rewrites: null
\* row flags (0 -> 1), a bare number as a price entry (1 -> 2), null
\* feedbacks (2 -> 3), adminMode true (3 -> 4).
C22_VersionGating ==
  (loads = 1 /\ raw.t = "obj") =>
    LET ver == ClaimedVersion(raw)
    IN /\ Get(raw, "potionRowDetailsOpen") = Null =>
            Get(doc, "potionRowDetailsOpen") = (IF ver < 1 THEN FourFlagsOff ELSE Null)
       /\ Get(Get(raw, "prices"), "ingot") = Num(5000) =>
            Get(Get(doc, "prices"), "ingot") =
              (IF ver < 2 THEN Obj([market |-> Str("5000")]) ELSE Num(5000))
       /\ Get(raw, "feedbacks") = Null =>
            Get(doc, "feedbacks") =
              (IF ver < 3 THEN Obj([nextId |-> Num(1), items |-> Arr(<<>>)]) ELSE Null)
       /\ Get(raw, "adminMode") = Bool(TRUE) =>
            Get(doc, "adminMode") = Bool(ver >= 4)
       /\ ver = Get(defaultsOf(copy), "schemaVersion").n =>
            doc = deepMerge(defaultsOf(copy), raw)

\* a version 2 document loaded: the first two transforms were skipped, the
\* last two ran
C22_Witness ==
  /\ loads = 1
  /\ Get(raw, "schemaVersion") = Num(2)
  /\ Get(raw, "potionRowDetailsOpen") = Null
  /\ Get(Get(raw, "prices"), "ingot") = Num(5000)
  /\ Get(raw, "feedbacks") = Null
  /\ Get(raw, "adminMode") = Bool(TRUE)
  /\ Get(doc, "potionRowDetailsOpen") = Null
  /\ Get(Get(doc, "prices"), "ingot") = Num(5000)
  /\ Get(doc, "feedbacks").t = "obj"
  /\ Get(doc, "adminMode") = Bool(FALSE)

\* d holds, at the same path, every leaf value r supplies for a field of
\* schema (the default document); the version stamp is left out, and so is
\* a raw value sitting where the schema has a group of fields
RECURSIVE HoldsLeaves(_, _, _)
HoldsLeaves(r, d, schema) ==
  \A k \in (DOMAIN r.o \cap DOMAIN schema.o) \ {"schemaVersion"} :
    IF schema.o[k].t = "obj"
    THEN (r.o[k].t = "obj" =>
            /\ Get(d, k).t = "obj"
            /\ HoldsLeaves(r.o[k], Get(d, k), schema.o[k]))
    ELSE Get(d, k) = r.o[k]

\* C23: the transforms are additive: every leaf value the raw document
\* supplies for a current-schema field (adminMode, feedbacks.nextId, a
\* potionRowDetailsOpen flag, ...) is held at the same path in the migrated
\* document, whatever the incoming version.
C23_Additive ==
  (loads = 1 /\ raw.t = "obj") => HoldsLeaves(raw, doc, defaultsOf(copy))

----------------------------------------------------------------------------
(* App: the live state from its load to its reset, the listener of the     *)
(* shared prices document and the debounced write to it.  A handler, the   *)
(* render it causes and the effects of that render are one step.           *)

\* localStorage.getItem(key): null, "", a text JSON.parse rejects, or the
\* JSON text of a value
NoItem == [t |-> "noitem"]
EmptyText == [t |-> "text", s |-> ""]
BadText == [t |-> "text", s |-> "{bad"]
JsonText(v) == [t |-> "json", value |-> v]

\* JSON.stringify(state)
JSONstringify(state) == JsonText(state)

\* the initializer of useState in useLocalStorageState ignoring what is stored
initialStateOf_fresh(item, initialValue) == initialValue

\* the initializer of useState in useLocalStorageState: !raw, then
\* JSON.parse inside try (a throw gives initialValue), then migrateState
initialStateOf(item, initialValue) ==
  IF item.t = "noitem" THEN initialValue
  ELSE IF item.t = "text" THEN initialValue
  ELSE migrateState(item.value, initialValue)

\* the fields of the state the write effect watches and writes
SharedFields ==
  {"ingotGrossPrice", "gemGrossPrice", "prices", "abilityGrossSell",
   "lifeGrossSell", "potionPrices"}

\* those of them that hold a group of rates
RateGroups == {"prices", "lifeGrossSell", "potionPrices"}

\* the data handed to setDoc
pricePayload(s) ==
  Obj([k \in SharedFields \cup {"updatedAt"} |->
         IF k = "updatedAt" THEN Str("serverTimestamp") ELSE Get(s, k)])

\* setDoc(ref, data, { merge: true }) on a document holding old: the fields
\* of data are written, maps field by field
RECURSIVE setDocMerge(_, _)
setDocMerge(old, data) ==
  IF old.t # "obj" \/ data.t # "obj" THEN data
  ELSE Obj([k \in DOMAIN old.o \cup DOMAIN data.o |->
              IF k \notin DOMAIN data.o THEN old.o[k]
              ELSE IF k \in DOMAIN old.o THEN setDocMerge(old.o[k], data.o[k])
              ELSE data.o[k]])

\* the updater of the snapshot listener spreading all of data over p
mergeSnapshot_spread(p, data) ==
  Obj([k \in DOMAIN p.o \cup DOMAIN data.o |->
         IF k \in DOMAIN data.o THEN data.o[k] ELSE p.o[k]])

\* the updater of the snapshot listener: { ...p, f: data.f ?? p.f, ... }
mergeSnapshot(p, data) ==
  Obj([k \in DOMAIN p.o \cup SharedFields |->
         IF k \in SharedFields THEN Coalesce(Get(data, k), Get(p, k))
         ELSE p.o[k]])

\* the dependency test of the write effect (Object.is per field): fresh
\* holds the fields the update gave a newly built object
WatchedChanged(old, new, fresh) ==
  \E k \in SharedFields : k \in fresh \/ Get(old, k) # Get(new, k)

\* documents other clients leave in shared/prices
RemoteDocs ==
  {Obj([prices |-> Obj([ingot |-> Obj([market |-> Str("7000")])]),
        schemaVersion |-> Num(9),
        updatedAt |-> Str("serverTimestamp")]),
   Obj([updatedAt |-> Str("serverTimestamp")])}

\* what the browser holds under "miner_eff_v6" when the page opens
StoredItems ==
  {NoItem, EmptyText, BadText, JsonText(Null),
   JsonText(Obj([schemaVersion |-> Num(1), adminMode |-> Bool(TRUE),
                 prices |-> Obj([ingot |-> Num(5000)])]))}

AdminPasswords == {"0327korea", "1234"}
MenuKeys == {"ingot"}
MarketTexts == {"6500"}

InitApp ==
  /\ copy = "App.jsx"
  /\ raw \in StoredItems
  /\ doc = Undefined /\ prevDoc = Undefined /\ loads = 0
  /\ evArgs = NoCall /\ ev = NoCall /\ prevArgs = NoCall /\ prevEv = NoCall
  /\ costArgs = NoCall /\ unitCost = NoCall
  /\ compare = NoCall /\ call = NoCall /\ result = NoCall
  /\ shared \in {Undefined} \cup RemoteDocs
  /\ snapPending = FALSE
  /\ suppressPriceWrite = FALSE
  /\ priceUpdateTimer = NoCall
  /\ lastWrite = NoCall
  /\ unsent = FALSE
  /\ appFeeRate = NoCall

\* the write effect after a render: nothing when no watched field changed;
\* otherwise the cleanup clears the timer and the body either consumes the
\* flag or arms a new timer holding the rendered values
WriteEffect(changed, flag, s, cause) ==
  IF ~changed
  THEN suppressPriceWrite' = flag /\ UNCHANGED priceUpdateTimer
  ELSE IF flag
       THEN suppressPriceWrite' = FALSE /\ priceUpdateTimer' = NoCall
       ELSE /\ suppressPriceWrite' = FALSE
            /\ priceUpdateTimer' = [payload |-> pricePayload(s), cause |-> cause]

\* a render of App with state s: the feeRate memo and the effect that saves
\* the state
Render(s) ==
  /\ doc' = s
  /\ appFeeRate' = feeRateOf(s)
  /\ raw' = JSONstringify(s)

\* the first render: the state initializer, the listener subscription and
\* the first run of every effect
Mount ==
  /\ loads = 0
  /\ loads' = 1
  /\ Render(initialStateOf(raw, defaultsOf(copy)))
  /\ call' = [fn |-> "useLocalStorageState", args |-> <<raw>>, from |-> NoCall]
  /\ snapPending' = TRUE
  /\ WriteEffect(TRUE, suppressPriceWrite, doc', "load")
  /\ UNCHANGED <<copy, prevDoc, evVars, costVars, compare, result, shared,
                 lastWrite, unsent>>

\* setS from a handler of the user, and the render after it
UserSetS(fn, s, fresh, cause) ==
  /\ loads = 1
  /\ Render(s)
  /\ call' = [fn |-> fn, args |-> <<>>, from |-> NoCall]
  /\ WriteEffect(WatchedChanged(doc, s, fresh), suppressPriceWrite, s, cause)
  /\ unsent' = (unsent \/ cause = "edit")
  /\ UNCHANGED <<copy, prevDoc, loads, evVars, costVars, compare, result, shared,
                 snapPending, lastWrite>>

\* the market price field of a material
EditPrice ==
  \E x \in MarketTexts :
    UserSetS("onChange",
             With(doc, "prices",
                  With(Get(doc, "prices"), "stone", Obj([market |-> Str(x)]))),
             {"prices"}, "edit")

setActive == \E key \in MenuKeys : UserSetS("setActive", With(doc, "activeMenu", Str(key)), {}, "menu")

\* loginAdmin with the password typed into the modal
loginAdmin ==
  \E adminPass \in AdminPasswords :
    UserSetS("loginAdmin",
             IF adminPass = "0327korea" THEN With(doc, "adminMode", Bool(TRUE)) ELSE doc,
             {}, "admin")

logoutAdmin == UserSetS("logoutAdmin", With(doc, "adminMode", Bool(FALSE)), {}, "admin")

\* reset: setS(defaultState).  The groups of the live state are the objects
\* of defaultState itself when nothing has replaced them since an unmigrated
\* load; the model does not track that, so equal values may or may not count
\* as changed
reset ==
  \E fresh \in {{}, RateGroups} :
    UserSetS("reset", defaultsOf(copy), fresh, "reset")

\* another client writes the shared document
RemoteWrite ==
  /\ loads = 1
  /\ \E d \in RemoteDocs : shared' = d /\ shared # d
  /\ snapPending' = TRUE
  /\ UNCHANGED <<copy, raw, doc, prevDoc, loads, evVars, costVars, callVars,
                 suppressPriceWrite, priceUpdateTimer, lastWrite, unsent, appFeeRate>>

\* the listener of shared/prices receives a snapshot
Snapshot ==
  /\ loads = 1
  /\ snapPending
  /\ snapPending' = FALSE
  /\ call' = [fn |-> "onSnapshot", args |-> <<shared>>, from |-> doc]
  /\ IF shared = Undefined
     THEN UNCHANGED <<raw, doc, appFeeRate, suppressPriceWrite, priceUpdateTimer>>
     ELSE /\ Render(mergeSnapshot(doc, shared))
          /\ WriteEffect(WatchedChanged(doc, doc',
                                        {k \in RateGroups : ~IsNullish(Get(shared, k))}),
                         TRUE, doc', "snapshot")
  /\ UNCHANGED <<copy, prevDoc, loads, evVars, costVars, compare, result, shared,
                 lastWrite, unsent>>

\* the 800 ms timeout expires: setDoc with the values of the render that
\* armed it
TimerFires ==
  /\ priceUpdateTimer # NoCall
  /\ lastWrite' = priceUpdateTimer
  /\ shared' = setDocMerge(shared, priceUpdateTimer.payload)
  /\ snapPending' = TRUE
  /\ priceUpdateTimer' = NoCall
  /\ unsent' = FALSE
  /\ UNCHANGED <<copy, raw, doc, prevDoc, loads, evVars, costVars, callVars,
                 suppressPriceWrite, appFeeRate>>

NextApp ==
  \/ Mount
  \/ EditPrice
  \/ setActive
  \/ loginAdmin
  \/ logoutAdmin
  \/ reset
  \/ RemoteWrite
  \/ Snapshot
  \/ TimerFires

SpecApp == InitApp /\ [][NextApp]_vars

----------------------------------------------------------------------------
(* Properties of the App: load, shared prices, reset *)

\* C24: if the stored value is absent or its JSON parsing throws, the
\* initial state is the default document unchanged; otherwise it is
\* migrateState(parsed, defaults); the migration runs once, and no
\* calculator input (the fee rate memo) exists before it.
C24_Load ==
  /\ loads <= 1
  /\ appFeeRate # NoCall => loads = 1
  /\ IsCall("useLocalStorageState") =>
       doc = (IF call.args[1] \in {NoItem, EmptyText, BadText}
              THEN defaultsOf(copy)
              ELSE migrateState(call.args[1].value, defaultsOf(copy)))

\* a stored version 1 document was loaded and migrated before the fee rate
\* was computed from it
C24_Witness ==
  /\ IsCall("useLocalStorageState")
  /\ call.args[1].t = "json"
  /\ Get(call.args[1].value, "schemaVersion") = Num(1)
  /\ Get(Get(doc, "prices"), "ingot") = Obj([market |-> Str("5000")])
  /\ Get(doc, "schemaVersion") = Num(4)
  /\ appFeeRate = R(5, 100)

\* C25: merging a shared-prices snapshot keeps, in each nested rate group
\* (prices, lifeGrossSell, potionPrices), every local entry whose key the
\* snapshot does not supply; only the keys it supplies are overwritten.
C25_SnapshotDeepMerge ==
  (IsCall("onSnapshot") /\ call.args[1] # Undefined) =>
    \A g \in RateGroups :
      \A k \in DOMAIN OwnProps(Get(call.from, g)) :
        k \notin DOMAIN OwnProps(Get(call.args[1], g)) =>
          Get(Get(doc, g), k) = Get(Get(call.from, g), k)

\* C26: after a local edit of a shared price field the edited values reach
\* the shared document within one debounce period after the last edit, in
\* every interleaving with snapshots: as long as the edit is unwritten, the
\* 800 ms timer armed by the last edit is pending and holds the values of
\* the live state.
C26_EditIsWritten ==
  unsent =>
    /\ priceUpdateTimer # NoCall
    /\ priceUpdateTimer.payload = pricePayload(doc)

\* C27: the shared document is written only as a consequence of a local
\* change of the shared price fields by the user (an edit, or the reset of
\* all fields); neither the page load nor a snapshot results in a write.
C27_WritesFollowEdits ==
  lastWrite # NoCall => lastWrite.cause \in {"edit", "reset"}

\* C28: for every recipe record the sign of deltaRevenueVsIndiv (rounded
\* profit less rounded baseline) agrees with the recommendation: the delta
\* is at least 0 exactly when crafting is recommended.
C28_DeltaAgrees ==
  Compared =>
    \A row \in DOMAIN compare :
      RLeq(I(0), compare[row].deltaRevenueVsIndiv)
        <=> recommendation(compare[row]) = "craft"

\* C29: in every state reached by load, field edits, menu changes, admin
\* login and logout, shared-prices snapshots and reset, the schemaVersion
\* of the live state is that of the default document (4).
C29_VersionKept ==
  loads = 1 =>
    /\ Get(doc, "schemaVersion") = Get(defaultsOf(copy), "schemaVersion")
    /\ Get(doc, "schemaVersion") = Num(4)

\* a snapshot carrying a schemaVersion of its own was merged into a state
\* that had been edited and written
C29_Witness ==
  /\ IsCall("onSnapshot")
  /\ Get(call.args[1], "schemaVersion") = Num(9)
  /\ Get(Get(doc, "prices"), "ingot") = Obj([market |-> Str("7000")])
  /\ Get(doc, "adminMode") = Bool(TRUE)
  /\ Get(doc, "activeMenu") = Str("ingot")
  /\ lastWrite # NoCall
  /\ Get(doc, "schemaVersion") = Num(4)

----------------------------------------------------------------------------
(* ProfilePage: the fee and the two gross price fields, and the EV           *)
(* breakdown PotionPage computes from them                                   *)

FeePctTexts == {"5", "0", "50", "80", "150", "-5", "abc", ""}
IngotGrossTexts == {"6000", "-100", "0.5", ""}
GemGrossTexts == {"12000", "-1", "7", "abc"}

\* the fee field
TypeFeePct == \E x \in FeePctTexts : SetField("feePct", Str(x))

\* the ingot price field: it sets ingotGrossPrice and prices.ingot
TypeIngotGrossPrice ==
  \E x \in IngotGrossTexts :
    /\ Str(x) # Get(doc, "ingotGrossPrice")
    /\ doc' = With(With(doc, "ingotGrossPrice", Str(x)), "prices",
                   With(Get(doc, "prices"), "ingot", Obj([market |-> Str(x)])))
    /\ evArgs' = potionEVArgs(doc')
    /\ ev' = miningEVBreakdown(evArgs')
    /\ UNCHANGED <<copy, migrateVars, prevArgs, prevEv, costVars, callVars, appVars>>

\* the gem price field
TypeGemGrossPrice == \E x \in GemGrossTexts : SetField("gemGrossPrice", Str(x))

NextFee == TypeFeePct \/ TypeIngotGrossPrice \/ TypeGemGrossPrice

SpecFee == InitPotion /\ [][NextFee]_vars

\* Math.max(0, Math.min(0.5, v))
ClampedToHalf(v) ==
  IF RLess(v, I(0)) THEN I(0) ELSE IF RLess(R(1, 2), v) THEN R(1, 2) ELSE v

\* net is gross less a fee of at most one half
NetWithinHalf(gross, net) == RLeq(RMul(R(1, 2), gross), net) /\ RLeq(net, gross)

====
